---------------------------- MODULE Spec2Model ----------------------------
(* A model of python-taskpaper: the outline tree of taskpaper/item.py      *)
(* (parent setter, ancestors walk, constructor) and the tag collection of   *)
(* taskpaper/_tags.py driven by the tag methods of taskpaper/items.py, and   *)
(* the item of taskpaper/items.py itself: its text, the tags TAG_REGEX finds *)
(* in it, its own tag collection and its string.                            *)
EXTENDS Integers, Sequences, FiniteSets, TLC

(***************************************************************************)
(* Bounds                                                                  *)
(***************************************************************************)
\* Number of TaskPaperItem objects that may be constructed.
MaxItems == 3

\* Longest tag list an item is given.
MaxTags == 3

\* Longest text handed to the TaskPaperItem constructor.
MaxText == 5

\* Longest text of an item whose tag methods are then called.
MaxSeed == 3

\* Number of tag method calls made on one item built from a text.
MaxCalls == 1

\* Number of pieces an item text or a link argument is put together from.
MaxParts == 3

\* Python's None, as a parent reference; items are the handles 1..MaxItems.
None == 0

Items == 1..MaxItems

VARIABLES
    nItems,         \* how many items have been constructed (handles 1..nItems)
    parent,         \* item -> its _parent (None or an item)
    children,       \* item -> its children list
    last,           \* the last call: [op, self, new, outcome]
    pre_parent,     \* parent as it was when the last call started
    pre_children,   \* children as it was when the last call started
    tags,           \* TagCollection._tags of one item: a list of TaskPaperTag
    tlast,          \* the last tag call: [op, arg, tag, outcome]
    pre_tags,       \* tags as it was when the last tag call started
    item,           \* a TaskPaperItem of items.py: [text, body_text, tags]
    ilast,          \* the last call on it: [op, name, value, text, outcome]
    pre_item,       \* item as it was when the last call started
    ncalls,         \* tag method calls made on item
    link_text,      \* item.text: the buffer a LinkCollection reads its links from
    llast,          \* the last link call: [op, value, outcome]
    pre_link_text,  \* link_text as it was when the last link call started
    pc,             \* thread -> where it stands in the parent setter
    req,            \* thread -> the assignment it runs: [self, new]
    raced           \* two threads stood between their check and their relink

treeVars == <<nItems, parent, children, last, pre_parent, pre_children>>

tagVars == <<tags, tlast, pre_tags>>

itemVars == <<item, ilast, pre_item, ncalls>>

linkVars == <<link_text, llast, pre_link_text>>

threadVars == <<pc, req, raced>>

vars == <<treeVars, tagVars, itemVars, linkVars, threadVars>>

Created == 1..nItems

Range(s) == {s[i] : i \in 1..Len(s)}

(***************************************************************************)
(* list.remove(x): drops the first occurrence of x.                        *)
(***************************************************************************)
FirstIndex(s, x) == CHOOSE i \in 1..Len(s) : s[i] = x /\ \A j \in 1..(i-1) : s[j] # x

ListRemove(s, x) ==
    LET i == FirstIndex(s, x)
    IN  SubSeq(s, 1, i - 1) \o SubSeq(s, i + 1, Len(s))

(***************************************************************************)
(* TaskPaperItem.ancestors: the items the generator yields, starting from  *)
(* `current`, following parent links of `par` until a None parent.  `fuel` *)
(* cuts the enumeration: a generator that yields more than MaxItems items  *)
(* has revisited an item and never ends.                                   *)
(***************************************************************************)
RECURSIVE ancestors(_, _, _)
ancestors(par, current, fuel) ==
    IF par[current] = None \/ fuel = 0
    THEN << >>
    ELSE <<par[current]>> \o ancestors(par, par[current], fuel - 1)

WalkFuel == MaxItems + 1

\* The setter without its same-parent test.
SameParentNever(self, new_parent) == FALSE

\* "if self._parent is new_parent: return"
SameParent(self, new_parent) == parent[self] = new_parent

\* A cycle check that looks at the new parent's parent only.
CircularCheckParentOnly(self, new_parent) ==
    new_parent # None /\ parent[new_parent] = self

\* "for ancestor in new_parent.ancestors: if ancestor is self: raise"
CircularCheck(self, new_parent) ==
    new_parent # None /\ self \in Range(ancestors(parent, new_parent, WalkFuel))

\* The loop over new_parent.ancestors never finds self and never ends.
WalkDiverges(self, new_parent) ==
    /\ new_parent # None
    /\ Len(ancestors(parent, new_parent, WalkFuel)) = WalkFuel
    /\ self \notin Range(ancestors(parent, new_parent, WalkFuel))

\* A relink that forgets to leave the old parent's children.
RelinkNoRemove(self, new_parent) ==
    IF new_parent # None
    THEN [children EXCEPT ![new_parent] = Append(@, self)]
    ELSE children

\* A relink that leaves the old parent's children and joins no new ones.
RelinkNoAppend(self, new_parent) ==
    IF parent[self] # None
    THEN [children EXCEPT ![parent[self]] = ListRemove(@, self)]
    ELSE children

\* "self._parent.children.remove(self)" then "new_parent.children.append(self)"
Relink(self, new_parent) ==
    LET removed == IF parent[self] # None
                   THEN [children EXCEPT ![parent[self]] = ListRemove(@, self)]
                   ELSE children
    IN  IF new_parent # None
        THEN [removed EXCEPT ![new_parent] = Append(@, self)]
        ELSE removed

(***************************************************************************)
(* The parent setter: the outcome of "self.parent = new_parent" and the    *)
(* parent links and children lists it leaves.                              *)
(***************************************************************************)
ParentSetter(self, new_parent) ==
    IF SameParent(self, new_parent)
    THEN [outcome |-> "noop", parent |-> parent, children |-> children]
    ELSE IF CircularCheck(self, new_parent)
    THEN [outcome |-> "TaskPaperError", parent |-> parent, children |-> children]
    ELSE IF WalkDiverges(self, new_parent)
    THEN [outcome |-> "hang", parent |-> parent, children |-> children]
    ELSE IF parent[self] # None /\ self \notin Range(children[parent[self]])
    THEN [outcome |-> "ValueError", parent |-> parent, children |-> children]
    ELSE [outcome  |-> "ok",
          parent   |-> [parent EXCEPT ![self] = new_parent],
          children |-> Relink(self, new_parent)]

Running == last.outcome # "hang"

TreeInit ==
    /\ nItems = 0
    /\ parent = [i \in Items |-> None]
    /\ children = [i \in Items |-> << >>]
    /\ last = [op |-> "init", self |-> None, new |-> None, outcome |-> "ok"]
    /\ pre_parent = parent
    /\ pre_children = children

\* TaskPaperItem(text, parent=p): a fresh item with no children, then
\* self.parent = p.
NewItem(p) ==
    /\ Running
    /\ nItems < MaxItems
    /\ LET self == nItems + 1
           r    == ParentSetter(self, p)
       IN  /\ nItems' = IF r.outcome = "hang" THEN nItems ELSE self
           /\ parent' = r.parent
           /\ children' = r.children
           /\ last' = [op |-> "new", self |-> self, new |-> p, outcome |-> r.outcome]
    /\ pre_parent' = parent
    /\ pre_children' = children

\* item.parent = new_parent on a constructed item.
SetParent(self, new_parent) ==
    /\ Running
    /\ LET r == ParentSetter(self, new_parent)
       IN  /\ parent' = r.parent
           /\ children' = r.children
           /\ last' = [op |-> "set", self |-> self, new |-> new_parent,
                       outcome |-> r.outcome]
    /\ pre_parent' = parent
    /\ pre_children' = children
    /\ UNCHANGED nItems

Construct == \E p \in Created \cup {None} : NewItem(p) /\ UNCHANGED <<tagVars, itemVars, linkVars, threadVars>>

Assign == \E self \in Created : \E new_parent \in Created \cup {None} :
              SetParent(self, new_parent) /\ UNCHANGED <<tagVars, itemVars, linkVars, threadVars>>

(***************************************************************************)
(* The parent setter run by threads that share an outline.  The setter     *)
(* takes no lock, so another thread can run between its statements: the    *)
(* tests before the relink (same parent, ancestor walk), the removal from  *)
(* the old parent's children, the append to the new parent's children and  *)
(* the store of _parent are steps of their own.                            *)
(***************************************************************************)
Threads == {"t1", "t2"}

ThreadInit ==
    /\ pc = [t \in Threads |-> "idle"]
    /\ req = [t \in Threads |-> [self |-> None, new |-> None]]
    /\ raced = FALSE

\* Where the tests at the head of the setter leave the thread.
setter_check(self, new_parent) ==
    IF SameParent(self, new_parent) THEN "noop"
    ELSE IF CircularCheck(self, new_parent) THEN "TaskPaperError"
    ELSE IF WalkDiverges(self, new_parent) THEN "hang"
    ELSE "remove"

\* A removal that walks the new parent's ancestors once more.
setter_remove_rechecked(self, new_parent) ==
    IF CircularCheck(self, new_parent)
    THEN [outcome |-> "TaskPaperError", children |-> children]
    ELSE IF parent[self] = None
    THEN [outcome |-> "ok", children |-> children]
    ELSE IF self \notin Range(children[parent[self]])
    THEN [outcome |-> "ValueError", children |-> children]
    ELSE [outcome  |-> "ok",
          children |-> [children EXCEPT ![parent[self]] = ListRemove(@, self)]]

\* "if self._parent is not None: self._parent.children.remove(self)"
setter_remove(self, new_parent) ==
    IF parent[self] = None
    THEN [outcome |-> "ok", children |-> children]
    ELSE IF self \notin Range(children[parent[self]])
    THEN [outcome |-> "ValueError", children |-> children]
    ELSE [outcome  |-> "ok",
          children |-> [children EXCEPT ![parent[self]] = ListRemove(@, self)]]

\* "if new_parent is not None: new_parent.children.append(self)"
setter_append(self, new_parent) ==
    IF new_parent # None
    THEN [children EXCEPT ![new_parent] = Append(@, self)]
    ELSE children

\* The outline is built before the threads start.
Build == (\A t \in Threads : pc[t] = "idle") /\ Construct

\* A thread begins "self.parent = new_parent" and runs the setter's tests;
\* raced: another thread has passed its tests and has not begun to relink.
SetterCheck == \E t \in Threads : \E self \in Created : \E new_parent \in Created \cup {None} :
    /\ pc[t] = "idle"
    /\ pc' = [pc EXCEPT ![t] = setter_check(self, new_parent)]
    /\ req' = [req EXCEPT ![t] = [self |-> self, new |-> new_parent]]
    /\ raced' = (raced \/ (/\ setter_check(self, new_parent) = "remove"
                            /\ \E u \in Threads \ {t} : pc[u] = "remove"))
    /\ UNCHANGED <<treeVars, tagVars, itemVars, linkVars>>

SetterRemove == \E t \in Threads :
    /\ pc[t] = "remove"
    /\ LET r == setter_remove(req[t].self, req[t].new)
       IN  /\ children' = r.children
           /\ pc' = [pc EXCEPT ![t] = IF r.outcome = "ok" THEN "append" ELSE r.outcome]
    /\ UNCHANGED <<nItems, parent, last, pre_parent, pre_children, req, raced>>
    /\ UNCHANGED <<tagVars, itemVars, linkVars>>

SetterAppend == \E t \in Threads :
    /\ pc[t] = "append"
    /\ children' = setter_append(req[t].self, req[t].new)
    /\ pc' = [pc EXCEPT ![t] = "store"]
    /\ UNCHANGED <<nItems, parent, last, pre_parent, pre_children, req, raced>>
    /\ UNCHANGED <<tagVars, itemVars, linkVars>>

\* "self._parent = new_parent"
SetterStore == \E t \in Threads :
    /\ pc[t] = "store"
    /\ parent' = [parent EXCEPT ![req[t].self] = req[t].new]
    /\ pc' = [pc EXCEPT ![t] = "done"]
    /\ UNCHANGED <<nItems, children, last, pre_parent, pre_children, req, raced>>
    /\ UNCHANGED <<tagVars, itemVars, linkVars>>

(***************************************************************************)
(* Tags: taskpaper/_tags.py (TagCollection) and the tag methods of         *)
(* taskpaper/items.py                                                      *)
(***************************************************************************)
Names == {"done", "foo", "baz"}

Values == {"", "now"}

\* Python's None as a tag value argument.
NoValue == "<None>"

\* TaskPaperTag = namedtuple('TaskPaperTag', 'name value')
TaskPaperTag(name, value) == [name |-> name, value |-> value]

\* The Python values handed to the collection: a string, a 2-tuple, or
\* something that is neither (an int).
PyStr(s) == [t |-> "str", a |-> s, b |-> NoValue]

PyTuple(a, b) == [t |-> "tuple", a |-> a, b |-> b]

PyInt == [t |-> "int", a |-> "", b |-> NoValue]

\* A tag name that is no string (47, float('inf'), another item).
IntName == "<47>"

\* The Python value of a name argument.
PyName(name) == IF name = IntName THEN PyInt ELSE PyStr(name)

\* No argument at all.
NoArg == [t |-> "none", a |-> "", b |-> NoValue]

PyValues ==
    {PyStr(n) : n \in Names}
    \cup {PyTuple(n, v) : n \in Names, v \in Values \cup {NoValue}}
    \cup {PyInt}

\* TagCollection._coerce_value_to_tag
coerce_value_to_tag(value) ==
    IF value.t = "tuple"
    THEN [ok |-> TRUE,
          tag |-> TaskPaperTag(value.a, IF value.b \in {NoValue, ""} THEN "" ELSE value.b)]
    ELSE IF value.t = "str"
    THEN [ok |-> TRUE, tag |-> TaskPaperTag(value.a, "")]
    ELSE [ok |-> FALSE, tag |-> TaskPaperTag("", "")]

\* A Python list index: negative positions count from the end.
PyIndex(n, position) == IF position < 0 THEN position + n ELSE position

InRange(n, position) == PyIndex(n, position) >= 0 /\ PyIndex(n, position) < n

\* list.insert(position, x): the position is clamped to the list.
ListInsert(s, position, x) ==
    LET i == PyIndex(Len(s), position)
        k == IF i < 0 THEN 0 ELSE IF i > Len(s) THEN Len(s) ELSE i
    IN  SubSeq(s, 1, k) \o <<x>> \o SubSeq(s, k + 1, Len(s))

\* del list[position], for a position in range.
ListDel(s, position) ==
    LET k == PyIndex(Len(s), position)
    IN  SubSeq(s, 1, k) \o SubSeq(s, k + 2, Len(s))

IsDone(tag) == tag.name = "done"

NotDone(tag) == tag.name # "done"

\* Three ways of getting _rearrange_for_done wrong: keeping every done tag,
\* putting the done tag first, keeping the oldest done tag.
rearrange_keep_all_done(ts) == SelectSeq(ts, NotDone) \o SelectSeq(ts, IsDone)

rearrange_done_first(ts) ==
    IF SelectSeq(ts, IsDone) = << >>
    THEN ts
    ELSE <<SelectSeq(ts, IsDone)[1]>> \o SelectSeq(ts, NotDone)

rearrange_last_done(ts) ==
    IF SelectSeq(ts, IsDone) = << >>
    THEN ts
    ELSE SelectSeq(ts, NotDone) \o <<SelectSeq(ts, IsDone)[Len(SelectSeq(ts, IsDone))]>>

\* A rearrangement that collects the other tags from the back.
RECURSIVE Reversed(_)
Reversed(ts) == IF ts = <<>> THEN <<>> ELSE Reversed(Tail(ts)) \o <<Head(ts)>>

rearrange_others_reversed(ts) ==
    IF SelectSeq(ts, IsDone) = << >>
    THEN ts
    ELSE Reversed(SelectSeq(ts, NotDone)) \o <<SelectSeq(ts, IsDone)[1]>>

\* TagCollection._rearrange_for_done
rearrange_for_done(ts) ==
    IF SelectSeq(ts, IsDone) = << >>
    THEN ts
    ELSE SelectSeq(ts, NotDone) \o <<SelectSeq(ts, IsDone)[1]>>

NoTag == TaskPaperTag("", "")

\* The position of a call that has none: an index no call is made with.
NoPosition == MaxTags + 1

Raise(ts, error) == [outcome |-> error, tags |-> ts, tag |-> NoTag]

\* TagCollection.insert
TagCollection_insert(ts, position, value) ==
    LET c == coerce_value_to_tag(value)
    IN  IF ~c.ok
        THEN Raise(ts, "ValueError")
        ELSE [outcome |-> "ok",
              tag     |-> c.tag,
              tags    |-> rearrange_for_done(
                              IF c.tag.name = "done"
                              THEN ListInsert(ts, 0, c.tag)
                              ELSE ListInsert(ts, position, c.tag))]

\* MutableSequence.append: self.insert(len(self), value)
TagCollection_append(ts, value) == TagCollection_insert(ts, Len(ts), value)

\* An index-assignment that keeps the tag at the position when it writes a
\* done tag.
TagCollection_setitem_keeps(ts, position, value) ==
    LET c == coerce_value_to_tag(value)
    IN  IF ~c.ok
        THEN Raise(ts, "ValueError")
        ELSE IF ~InRange(Len(ts), position)
        THEN Raise(ts, "IndexError")
        ELSE [outcome |-> "ok",
              tag     |-> c.tag,
              tags    |-> rearrange_for_done(
                              IF c.tag.name = "done"
                              THEN ListInsert(ts, 0, c.tag)
                              ELSE [ts EXCEPT ![PyIndex(Len(ts), position) + 1] = c.tag])]

\* TagCollection.__setitem__
TagCollection_setitem(ts, position, value) ==
    LET c == coerce_value_to_tag(value)
    IN  IF ~c.ok
        THEN Raise(ts, "ValueError")
        ELSE IF ~InRange(Len(ts), position)
        THEN Raise(ts, "IndexError")
        ELSE [outcome |-> "ok",
              tag     |-> c.tag,
              tags    |-> rearrange_for_done(
                              IF c.tag.name = "done"
                              THEN ListInsert(ListDel(ts, position), 0, c.tag)
                              ELSE [ts EXCEPT ![PyIndex(Len(ts), position) + 1] = c.tag])]

\* TagCollection.__delitem__
TagCollection_delitem(ts, position) ==
    IF ~InRange(Len(ts), position)
    THEN Raise(ts, "IndexError")
    ELSE [outcome |-> "ok", tag |-> NoTag, tags |-> ListDel(ts, position)]

\* An add_tag that updates a tag of that name when there is one.
add_tag_overwrites(ts, name, value) ==
    IF \E i \in 1..Len(ts) : ts[i].name = name
    THEN LET idx == CHOOSE i \in 1..Len(ts) :
                        ts[i].name = name /\ \A j \in 1..(i - 1) : ts[j].name # name
         IN  TagCollection_setitem(ts, idx - 1, PyTuple(name, value))
    ELSE TagCollection_append(ts, PyTuple(name, value))

\* TaskPaperItem.add_tag(name, value=None)
add_tag(ts, name, value) ==
    IF value = NoValue
    THEN TagCollection_append(ts, PyName(name))
    ELSE TagCollection_append(ts, PyTuple(name, value))

\* A set_tag that never looks for an existing tag.
set_tag_always_adds(ts, name, value) == add_tag(ts, name, value)

\* TaskPaperItem.set_tag(name, value)
set_tag(ts, name, value) ==
    IF \E i \in 1..Len(ts) : ts[i].name = name
    THEN LET idx == CHOOSE i \in 1..Len(ts) :
                        ts[i].name = name /\ \A j \in 1..(i - 1) : ts[j].name # name
         IN  TagCollection_setitem(ts, idx - 1, PyTuple(name, value))
    ELSE add_tag(ts, name, value)

\* TaskPaperItem.remove_tag(name, value=None): the loop reads self.tags[i]
\* for i = 0, 1, ... until the index runs off the list, and removes the
\* first tag equal to the one it reads while it goes.
RECURSIVE remove_loop(_, _, _, _)
remove_loop(ts, i, name, value) ==
    IF i >= Len(ts)
    THEN ts
    ELSE LET tag == ts[i + 1]
         IN  IF tag.name = name /\ (value = NoValue \/ tag.value = value)
             THEN remove_loop(ListRemove(ts, tag), i + 1, name, value)
             ELSE remove_loop(ts, i + 1, name, value)

\* A remove_tag that raises when no tag matches.
remove_tag_strict(ts, name, value) ==
    IF \E i \in 1..Len(ts) : ts[i].name = name /\ (value = NoValue \/ ts[i].value = value)
    THEN [outcome |-> "ok", tag |-> NoTag, tags |-> remove_loop(ts, 0, name, value)]
    ELSE Raise(ts, "ValueError")

\* A remove_tag that removes nothing.
remove_tag_keeps(ts, name, value) == [outcome |-> "ok", tag |-> NoTag, tags |-> ts]

remove_tag(ts, name, value) ==
    [outcome |-> "ok", tag |-> NoTag, tags |-> remove_loop(ts, 0, name, value)]

\* A membership test that knows 2-tuples only, no bare names.
contains_tuples_only(ts, value) ==
    /\ value.t = "tuple"
    /\ \E i \in 1..Len(ts) : ts[i] = TaskPaperTag(value.a, value.b)

\* A membership test that looks at the name of a 2-tuple only.
contains_by_name(ts, value) ==
    /\ value.t \in {"tuple", "str"}
    /\ \E i \in 1..Len(ts) : ts[i].name = value.a

\* TagCollection.__contains__
contains(ts, value) ==
    IF value.t = "tuple"
    THEN \E i \in 1..Len(ts) : ts[i] = TaskPaperTag(value.a, value.b)
    ELSE IF value.t = "str"
    THEN \E i \in 1..Len(ts) : ts[i].name = value.a
    ELSE FALSE

\* TaskPaperItem.__str__: the components that are joined with ' '.
\* Python's order of the names and of the values (str comparison).
NameOrder(name) == CASE name = "baz" -> 1 [] name = "done" -> 2 [] name = "foo" -> 3

ValueOrder(value) == CASE value = "" -> 1 [] value = "now" -> 2

\* x < y for two TaskPaperTag tuples.
TagBefore(x, y) ==
    \/ NameOrder(x.name) < NameOrder(y.name)
    \/ (x.name = y.name /\ ValueOrder(x.value) < ValueOrder(y.value))

\* sorted(ts)
RECURSIVE sorted(_)
sorted(ts) ==
    IF ts = <<>>
    THEN <<>>
    ELSE LET rest == sorted(Tail(ts))
             k == Cardinality({i \in 1..Len(rest) : TagBefore(rest[i], Head(ts))})
         IN  SubSeq(rest, 1, k) \o <<Head(ts)>> \o SubSeq(rest, k + 1, Len(rest))

\* An equality that compares the lists position by position, unsorted.
TagCollection_eq_unsorted(ts, other) ==
    /\ Len(ts) = Len(other)
    /\ \A i \in 1..Len(ts) : ts[i] = other[i]

\* TagCollection.__eq__
TagCollection_eq(ts, other) ==
    IF Len(ts) # Len(other)
    THEN FALSE
    ELSE \A i \in 1..Len(ts) : sorted(ts)[i] = sorted(other)[i]

\* TagCollection.__ne__
TagCollection_ne(ts, other) == ~TagCollection_eq(ts, other)

tag_str(tag) ==
    IF tag.value # ""
    THEN "@" \o tag.name \o "(" \o tag.value \o ")"
    ELSE "@" \o tag.name

item_str(body_text, ts) == <<body_text>> \o [i \in 1..Len(ts) |-> tag_str(ts[i])]

TagInit ==
    /\ tags = << >>
    /\ tlast = [op |-> "init", position |-> NoPosition, arg |-> NoArg, tag |-> NoTag,
                outcome |-> "ok"]
    /\ pre_tags = << >>

\* A call on the collection at a position.
TagCallAt(op, position, arg, r) ==
    /\ Len(r.tags) <= MaxTags
    /\ tags' = r.tags
    /\ tlast' = [op |-> op, position |-> position, arg |-> arg, tag |-> r.tag,
                 outcome |-> r.outcome]
    /\ pre_tags' = tags
    /\ UNCHANGED <<treeVars, itemVars, linkVars, threadVars>>

\* A call that names no position.
TagCall(op, arg, r) == TagCallAt(op, NoPosition, arg, r)

Positions == (0 - 1)..MaxTags

\* item.tags.insert(position, value)
Insert == \E position \in Positions : \E value \in PyValues :
              TagCallAt("insert", position, NoArg, TagCollection_insert(tags, position, value))

\* item.tags[position] = value
SetItem == \E position \in Positions : \E value \in PyValues :
               TagCallAt("setitem", position, NoArg, TagCollection_setitem(tags, position, value))

\* del item.tags[position]
DelItem == \E position \in Positions :
               TagCallAt("delitem", position, NoArg, TagCollection_delitem(tags, position))

\* item.add_tag(name, value)
AddTag == \E name \in Names : \E value \in Values \cup {NoValue} :
              TagCall("add_tag", PyTuple(name, value), add_tag(tags, name, value))

\* item.set_tag(name, value)
SetTag == \E name \in Names : \E value \in Values \cup {NoValue} :
              TagCall("set_tag", PyTuple(name, value), set_tag(tags, name, value))

\* item.remove_tag(name, value)
RemoveTag == \E name \in Names : \E value \in Values \cup {NoValue} :
                 TagCall("remove_tag", PyTuple(name, value), remove_tag(tags, name, value))

(***************************************************************************)
(* The done state of an item: the done property, done_date() and           *)
(* mark_done(), which work on the item's tags.                             *)
(***************************************************************************)
\* The date string of the day of the call, as _today() returns it.
Today == "today"

\* A boolean as a Python value: b is "True" or "False".
PyBool(b) == [t |-> "bool", a |-> b, b |-> NoValue]

\* The values assigned to item.done: the two booleans, a number and a string.
DoneValues == {PyBool("True"), PyBool("False"), PyInt, PyStr("foo")}

\* A call that changes nothing and returns.
Kept(ts) == [outcome |-> "ok", tags |-> ts, tag |-> NoTag]

\* item.done (getter): "done" in tags
TaskPaperItem_done(ts) == contains(ts, PyStr("done"))

\* item.done_date(): the value of the done tag, an error without one
TaskPaperItem_done_date(ts) ==
    IF TaskPaperItem_done(ts)
    THEN [outcome |-> "ok",
          value |-> ts[CHOOSE i \in 1..Len(ts) : ts[i].name = "done"].value]
    ELSE [outcome |-> "TaskPaperError", value |-> NoValue]

\* A setter that takes every value that is not True for False.
set_done_unchecked(ts, value) ==
    IF value.t = "bool" /\ value.a = "True"
    THEN set_tag(ts, "done", Today)
    ELSE IF TaskPaperItem_done(ts)
    THEN remove_tag(ts, "done", NoValue)
    ELSE Kept(ts)

\* item.done = value (setter): True sets the done tag to today's date,
\* False deletes the done tag if there is one, any other value is an error.
TaskPaperItem_set_done(ts, value) ==
    IF value.t # "bool"
    THEN Raise(ts, "ValueError")
    ELSE IF value.a = "True"
    THEN set_tag(ts, "done", Today)
    ELSE IF TaskPaperItem_done(ts)
    THEN remove_tag(ts, "done", NoValue)
    ELSE Kept(ts)

\* item.mark_done(date=None): marks an item that is not done, with the date
\* given or with today's date; an item that is done keeps its date.
TaskPaperItem_mark_done(ts, date) ==
    IF TaskPaperItem_done(ts)
    THEN Kept(ts)
    ELSE set_tag(ts, "done", IF date = NoValue THEN Today ELSE date)

\* item.done = value
SetDone == \E value \in DoneValues :
               TagCall("set_done", value, TaskPaperItem_set_done(tags, value))

\* item.mark_done(date)
MarkDone == \E date \in Values \cup {NoValue} :
                TagCall("mark_done", PyTuple("done", date),
                        TaskPaperItem_mark_done(tags, date))

(***************************************************************************)
(* The item of taskpaper/items.py: texts are sequences of characters.      *)
(***************************************************************************)
\* The characters of the texts: a letter, a blank, and the characters the
\* tag pattern treats specially.
Chars == {"a", " ", "@", "(", ")", "\\"}

Texts(n) == UNION {[1..k -> Chars] : k \in 0..n}

\* \s of the pattern, and the whitespace str.strip takes off.
IsSpace(c) == c = " "

\* The name characters of TAG_REGEX (the two classes of the name group).
IsNameChar(c) == c = "a"

\* Python's None as a tag value: the value group that did not take part in
\* the match, the default of add_tag's and remove_tag's value.
NoneValue == <<"None">>

Min(S) == CHOOSE x \in S : \A y \in S : x <= y

Max(S) == CHOOSE x \in S : \A y \in S : x >= y

RECURSIVE rstrip(_)
rstrip(s) ==
    IF Len(s) > 0 /\ IsSpace(s[Len(s)]) THEN rstrip(SubSeq(s, 1, Len(s) - 1)) ELSE s

RECURSIVE lstrip(_)
lstrip(s) ==
    IF Len(s) > 0 /\ IsSpace(s[1]) THEN lstrip(SubSeq(s, 2, Len(s))) ELSE s

strip(s) == lstrip(rstrip(s))

\* TAG_REGEX, name group: the index after the longest run of name characters
\* that starts at i.  A shorter run is followed by a name character, where
\* neither the value group nor the lookahead can match.
RECURSIVE NameEnd(_, _)
NameEnd(s, i) == IF i <= Len(s) /\ IsNameChar(s[i]) THEN NameEnd(s, i + 1) ELSE i

\* A pattern without the lookahead.
LookaheadAnything(s, i) == TRUE

\* TAG_REGEX, (?=\s|$)
Lookahead(s, i) == i > Len(s) \/ IsSpace(s[i])

\* TAG_REGEX, (?:^|\s+): the '@' at q is at the start of the text or follows
\* whitespace that the scan, which is at pos, has not consumed.
WordBoundary(s, pos, q) == q = 1 \/ (q > pos /\ IsSpace(s[q - 1]))

\* The start of the whitespace run before the '@' at q: where the match starts.
RECURSIVE RunStart(_, _, _)
RunStart(s, pos, q) ==
    IF q > pos /\ IsSpace(s[q - 1]) THEN RunStart(s, pos, q - 1) ELSE q

\* TAG_REGEX, value group after the '(' at n: (?:\\\)|[^\)])* takes
\* everything up to the first ')' that no backslash precedes, and gives
\* characters back one by one; the match closes at the last ')' of that
\* stretch that the lookahead accepts.  0: the group cannot match.
ValueClose(s, n) ==
    LET unescaped == {i \in (n + 1)..Len(s) : s[i] = ")" /\ s[i - 1] # "\\"}
        limit == IF unescaped = {} THEN Len(s) ELSE Min(unescaped)
        closers == {e \in (n + 1)..limit : s[e] = ")" /\ Lookahead(s, e + 1)}
    IN  IF closers = {} THEN 0 ELSE Max(closers)

NotMatched == [start |-> 0, stop |-> 0, name |-> <<>>, value |-> NoneValue]

\* TAG_REGEX tried on the '@' at q: the match (start, the index after its
\* end, and its groups), or NotMatched.
TAG_REGEX_match(s, pos, q) ==
    LET n == NameEnd(s, q + 1)
        name == SubSeq(s, q + 1, n - 1)
        start == RunStart(s, pos, q)
    IN  IF n <= Len(s) /\ s[n] = "("
        THEN LET e == ValueClose(s, n)
             IN  IF e = 0
                 THEN NotMatched
                 ELSE [start |-> start, stop |-> e + 1, name |-> name,
                       value |-> SubSeq(s, n + 1, e - 1)]
        ELSE IF Lookahead(s, n)
             THEN [start |-> start, stop |-> n, name |-> name, value |-> NoneValue]
             ELSE NotMatched

\* TAG_REGEX.finditer(s): the non-overlapping matches from left to right.
RECURSIVE TAG_REGEX_finditer(_, _)
TAG_REGEX_finditer(s, pos) ==
    LET found == {q \in pos..Len(s) : /\ s[q] = "@"
                                      /\ WordBoundary(s, pos, q)
                                      /\ TAG_REGEX_match(s, pos, q) # NotMatched}
    IN  IF found = {}
        THEN <<>>
        ELSE LET m == TAG_REGEX_match(s, pos, Min(found))
             IN  <<m>> \o TAG_REGEX_finditer(s, m.stop)

\* re.sub(TAG_REGEX, '', s): s without the matches ms, from index `from` on.
RECURSIVE TAG_REGEX_sub(_, _, _, _)
TAG_REGEX_sub(s, ms, i, from) ==
    IF i > Len(ms)
    THEN SubSeq(s, from, Len(s))
    ELSE SubSeq(s, from, ms[i].start - 1) \o TAG_REGEX_sub(s, ms, i + 1, ms[i].stop)

\* The tag collection of items.py: what append, insert and index assignment
\* are given is a 2-tuple (name, value) or a bare name.
ItemTuple(name, value) == [t |-> "tuple", a |-> name, b |-> value]

ItemStr(name) == [t |-> "str", a |-> name, b |-> NoneValue]

NoItemTag == TaskPaperTag(<<>>, <<>>)

\* A coercion that accepts every value of a 2-tuple.
items_coerce_unchecked(value) ==
    IF value.t = "tuple"
    THEN [outcome |-> "ok",
          tag |-> TaskPaperTag(value.a, IF value.b = NoneValue THEN <<>> ELSE value.b)]
    ELSE IF value.t = "str"
    THEN [outcome |-> "ok", tag |-> TaskPaperTag(value.a, <<>>)]
    ELSE [outcome |-> "ValueError", tag |-> NoItemTag]

\* _TagCollection._coerce_value_to_tag of items.py
items_coerce_value_to_tag(value) ==
    IF value.t = "tuple"
    THEN IF value.b # NoneValue /\ ")" \in Range(value.b)
         THEN [outcome |-> "ValueError", tag |-> NoItemTag]
         ELSE [outcome |-> "ok",
               tag |-> TaskPaperTag(value.a, IF value.b = NoneValue THEN <<>> ELSE value.b)]
    ELSE IF value.t = "str"
    THEN [outcome |-> "ok", tag |-> TaskPaperTag(value.a, <<>>)]
    ELSE [outcome |-> "ValueError", tag |-> NoItemTag]

\* _TagCollection.insert of items.py
items_insert(ts, position, value) ==
    LET c == items_coerce_value_to_tag(value)
    IN  IF c.outcome # "ok"
        THEN [outcome |-> c.outcome, tags |-> ts]
        ELSE [outcome |-> "ok", tags |-> ListInsert(ts, position, c.tag)]

\* MutableSequence.append
items_append(ts, value) == items_insert(ts, Len(ts), value)

\* _TagCollection.__setitem__ of items.py
items_setitem(ts, position, value) ==
    LET c == items_coerce_value_to_tag(value)
    IN  IF c.outcome # "ok"
        THEN [outcome |-> c.outcome, tags |-> ts]
        ELSE [outcome |-> "ok", tags |-> [ts EXCEPT ![position + 1] = c.tag]]

\* No item: the constructor has not run, or has raised.
NoItem == [text |-> NoneValue, body_text |-> <<>>, tags |-> <<>>]

\* TaskPaperItem._parse: the tags appended one match after the other.
RECURSIVE parse_tags(_, _, _)
parse_tags(ms, i, r) ==
    IF i > Len(ms) \/ r.outcome # "ok"
    THEN r
    ELSE parse_tags(ms, i + 1, items_append(r.tags, ItemTuple(ms[i].name, ms[i].value)))

\* TaskPaperItem.__init__ with _parse
TaskPaperItem_init(text) ==
    LET t == rstrip(text)
        ms == TAG_REGEX_finditer(t, 1)
        r == parse_tags(ms, 1, [outcome |-> "ok", tags |-> <<>>])
    IN  IF r.outcome # "ok"
        THEN [outcome |-> r.outcome, item |-> NoItem]
        ELSE [outcome |-> "ok",
              item |-> [text |-> t,
                        body_text |-> strip(TAG_REGEX_sub(t, ms, 1, 1)),
                        tags |-> r.tags]]

\* A tag component that leaves the value out.
tag_text_without_value(tag) == <<"@">> \o tag.name

\* TaskPaperItem.__str__: one component of the join for a tag.
tag_text(tag) ==
    IF tag.value # <<>>
    THEN <<"@">> \o tag.name \o <<"(">> \o tag.value \o <<")">>
    ELSE <<"@">> \o tag.name

RECURSIVE join_tags(_, _)
join_tags(ts, i) ==
    IF i > Len(ts) THEN <<>> ELSE <<" ">> \o tag_text(ts[i]) \o join_tags(ts, i + 1)

\* TaskPaperItem.__str__
TaskPaperItem_str(it) == it.body_text \o join_tags(it.tags, 1)

\* An add_tag that also writes the tag at the end of the body text.
TaskPaperItem_add_tag_in_body(it, name, value) ==
    LET r == IF value = NoneValue
             THEN items_append(it.tags, ItemStr(name))
             ELSE items_append(it.tags, ItemTuple(name, value))
    IN  [outcome |-> r.outcome,
         item |-> IF r.outcome = "ok"
                  THEN [it EXCEPT !.tags = r.tags,
                                  !.body_text = @ \o <<" ", "@">> \o name]
                  ELSE it]

\* TaskPaperItem.add_tag of items.py on its own collection
TaskPaperItem_add_tag(it, name, value) ==
    LET r == IF value = NoneValue
             THEN items_append(it.tags, ItemStr(name))
             ELSE items_append(it.tags, ItemTuple(name, value))
    IN  [outcome |-> r.outcome, item |-> [it EXCEPT !.tags = r.tags]]

\* A set_tag that adds the tag at the end whether or not the name is there.
TaskPaperItem_set_tag_appends(it, name, value) == TaskPaperItem_add_tag(it, name, value)

\* TaskPaperItem.set_tag of items.py on its own collection
TaskPaperItem_set_tag(it, name, value) ==
    IF \E i \in 1..Len(it.tags) : it.tags[i].name = name
    THEN LET idx == CHOOSE i \in 1..Len(it.tags) :
                        /\ it.tags[i].name = name
                        /\ \A j \in 1..(i - 1) : it.tags[j].name # name
             r == items_setitem(it.tags, idx - 1, ItemTuple(name, value))
         IN  [outcome |-> r.outcome, item |-> [it EXCEPT !.tags = r.tags]]
    ELSE TaskPaperItem_add_tag(it, name, value)

\* TaskPaperItem.remove_tag of items.py: the loop walks the list by index
\* while removing from it.
RECURSIVE items_remove_loop(_, _, _, _)
items_remove_loop(ts, i, name, value) ==
    IF i >= Len(ts)
    THEN ts
    ELSE IF ts[i + 1].name = name /\ (value = NoneValue \/ ts[i + 1].value = value)
         THEN items_remove_loop(ListRemove(ts, ts[i + 1]), i + 1, name, value)
         ELSE items_remove_loop(ts, i + 1, name, value)

TaskPaperItem_remove_tag(it, name, value) ==
    [outcome |-> "ok",
     item |-> [it EXCEPT !.tags = items_remove_loop(it.tags, 0, name, value)]]

ItemInit ==
    /\ item = NoItem
    /\ ilast = [op |-> "none", name |-> <<>>, value |-> NoneValue, text |-> <<>>,
                outcome |-> "ok"]
    /\ pre_item = NoItem
    /\ ncalls = 0

\* item = TaskPaperItem(text)
NewTaskPaperItem(text) ==
    /\ LET r == TaskPaperItem_init(text)
       IN  /\ item' = r.item
           /\ ilast' = [op |-> "init", name |-> <<>>, value |-> NoneValue,
                        text |-> text, outcome |-> r.outcome]
    /\ pre_item' = item
    /\ UNCHANGED <<ncalls, treeVars, tagVars, linkVars, threadVars>>

\* A tag method called on the item.
ItemCall(op, name, value, r) ==
    /\ item # NoItem
    /\ ncalls < MaxCalls
    /\ item' = r.item
    /\ ilast' = [op |-> op, name |-> name, value |-> value, text |-> <<>>,
                 outcome |-> r.outcome]
    /\ pre_item' = item
    /\ ncalls' = ncalls + 1
    /\ UNCHANGED <<treeVars, tagVars, linkVars, threadVars>>

\* Names and values the tag methods are called with.
ArgNames == {<<>>, <<"a">>, <<"a", "(">>}

ArgValues == {NoneValue, <<"a">>, <<"\\">>, <<")">>, <<"\\", ")">>}

\* The one item of the model is built once.
ParseItem == ilast.op = "none" /\ \E text \in Texts(MaxText) : NewTaskPaperItem(text)

SeedItem == ilast.op = "none" /\ \E text \in Texts(MaxSeed) : NewTaskPaperItem(text)

ItemAddTag == \E name \in ArgNames : \E value \in ArgValues :
                  ItemCall("add_tag", name, value, TaskPaperItem_add_tag(item, name, value))

ItemSetTag == \E name \in ArgNames : \E value \in ArgValues :
                  ItemCall("set_tag", name, value, TaskPaperItem_set_tag(item, name, value))

ItemRemoveTag == \E name \in ArgNames : \E value \in {NoneValue, <<"a">>} :
                     ItemCall("remove_tag", name, value,
                              TaskPaperItem_remove_tag(item, name, value))

(***************************************************************************)
(* Links: _links.py.  A text is a sequence of characters, as for tags.     *)
(***************************************************************************)
\* The letters the texts of the model are written with.
Letters == {"a", "e", "f", "h", "i", "l", "m", "o", "p", "s", "t", "w"}

Digits == {"0", "1", "2", "3", "4", "5", "6", "7", "8", "9"}

\* The pieces that item texts and link arguments are put together from:
\* a word, a space, a full stop, the four schemes, an email address, a web
\* address without scheme, two paths and a path with a backslash.
Parts ==
    { <<"a">>, <<" ">>, <<".">>,
      <<"h", "t", "t", "p", ":", "/", "/">>,
      <<"h", "t", "t", "p", "s", ":", "/", "/">>,
      <<"m", "a", "i", "l", "t", "o", ":">>,
      <<"f", "i", "l", "e", ":", "/", "/">>,
      <<"a", "@", "a", ".", "a", "a">>,
      <<"w", "w", "w", ".", "a", "a">>,
      <<".", "/", "a">>,
      <<"/", "a">>,
      <<"/", "\\">> }

RECURSIVE LinkTexts(_)
LinkTexts(n) ==
    IF n = 0
    THEN {<<>>}
    ELSE LET S == LinkTexts(n - 1) IN S \cup {t \o p : t \in S, p \in Parts}

\* \w
IsWord(c) == c \in Letters \cup Digits \cup {"_"}

\* [A-Z0-9\._%+\-] under IGNORECASE: the username of an email address
IsUser(c) == c \in Letters \cup Digits \cup {".", "_", "%", "+", "-"}

\* [A-Z0-9\.\-]: the hostname of an email address
IsHost(c) == c \in Letters \cup Digits \cup {".", "-"}

\* [A-Z]: the top-level domain of an email address
IsTld(c) == c \in Letters

\* [^\0 ]: the characters of a path
IsPathChar(c) == c # " "

\* [\w\-]: the scheme of a web address after its first letter
IsSchemeTail(c) == IsWord(c) \/ c = "-"

\* [a-z0-9%.]: the character after the colon of a scheme without slashes
IsAfterColon(c) == c \in Letters \cup Digits \cup {"%", "."}

\* [^\s()<>]: the body of a web address.  No text of the model holds a
\* parenthesis, so the parenthesised alternatives of the pattern never match.
IsUrlChar(c) == ~IsSpace(c) /\ c \notin {"(", ")", "<", ">"}

\* The last character of a web address: no whitespace, no bracket and no
\* punctuation mark of the pattern's list (its back quote and its typographic
\* quotation marks are characters no text of the model holds).
IsUrlEnd(c) ==
    /\ ~IsSpace(c)
    /\ c \notin {"!", "(", ")", "[", "]", "{", "}", ";", ":", "'", "\"",
                 ".", ",", "<", ">", "?"}

\* Whether c is of a character class of the patterns.
InClass(class, c) ==
    CASE class = "user" -> IsUser(c)
      [] class = "host" -> IsHost(c)
      [] class = "path" -> IsPathChar(c)
      [] class = "scheme" -> IsSchemeTail(c)
      [] class = "url" -> IsUrlChar(c)

\* The end of the longest run of characters of a class that starts at i
\* (i - 1 when s[i] is not of the class): a greedy X+ or X*.
RECURSIVE RunEnd(_, _, _)
RunEnd(class, s, i) ==
    IF i <= Len(s) /\ InClass(class, s[i]) THEN RunEnd(class, s, i + 1) ELSE i - 1

IsWordAt(s, i) == i \in 1..Len(s) /\ IsWord(s[i])

\* \b just before s[i]
Boundary(s, i) == IsWordAt(s, i - 1) # IsWordAt(s, i)

\* EMAIL_REGEX matched from i: the pairs <<p, t>> of the last character of
\* the hostname and the length of the top-level domain that make a match.
\* The username run must stop at the '@', which is no username character.
EmailTails(s, i) ==
    LET u == RunEnd("user", s, i)
    IN  IF ~(Boundary(s, i) /\ u >= i /\ u + 1 <= Len(s) /\ s[u + 1] = "@")
        THEN {}
        ELSE LET h == RunEnd("host", s, u + 2)
             IN  {c \in ((u + 2)..h) \X (2..4) :
                     /\ c[1] + 1 + c[2] <= Len(s)
                     /\ s[c[1] + 1] = "."
                     /\ \A k \in (c[1] + 2)..(c[1] + 1 + c[2]) : IsTld(s[k])
                     /\ Boundary(s, c[1] + 2 + c[2])}

\* Every index at which a match of EMAIL_REGEX from i can end.
EMAIL_REGEX_ends(s, i) == {c[1] + 1 + c[2] : c \in EmailTails(s, i)}

\* The end of the match the engine returns (both repetitions are greedy:
\* the longest hostname, then the longest domain), or 0.
EMAIL_REGEX_match(s, i) ==
    LET tails == EmailTails(s, i)
    IN  IF tails = {}
        THEN 0
        ELSE LET p == Max({c[1] : c \in tails})
                 t == Max({c[2] : c \in {d \in tails : d[1] = p}})
             IN  p + 1 + t

\* \.?\/ of PATH_REGEX from i: the index of the slash, or 0.
PathSlash(s, i) ==
    IF i + 1 <= Len(s) /\ s[i] = "." /\ s[i + 1] = "/"
    THEN i + 1
    ELSE IF i <= Len(s) /\ s[i] = "/" THEN i ELSE 0

\* \\\s of PATH_REGEX after the slash at j
PathEscape(s, j) == j + 2 <= Len(s) /\ s[j + 1] = "\\" /\ IsSpace(s[j + 2])

PATH_REGEX_ends(s, i) ==
    LET j == PathSlash(s, i)
    IN  IF j = 0
        THEN {}
        ELSE (IF PathEscape(s, j) THEN {j + 2} ELSE {})
                 \cup ((j + 1)..RunEnd("path", s, j + 1))

\* The escaped space is the first alternative; the run of characters is
\* greedy.
PATH_REGEX_match(s, i) ==
    LET j == PathSlash(s, i)
    IN  IF j = 0
        THEN 0
        ELSE IF PathEscape(s, j)
        THEN j + 2
        ELSE LET r == RunEnd("path", s, j + 1)
             IN  IF r >= j + 1 THEN r ELSE 0

\* The first group of WEB_REGEX from i: the indices at which it can end.
\* Either a scheme, a colon and one to three slashes or one other
\* character, or 'www', up to three digits and a full stop.
WebPrefixes(s, i) ==
    LET r == RunEnd("scheme", s, i + 1)
        c == r + 1
        scheme ==
            IF i <= Len(s) /\ s[i] \in Letters /\ r >= i + 1
                           /\ c <= Len(s) /\ s[c] = ":"
            THEN {c + k : k \in {n \in 1..3 : /\ c + n <= Len(s)
                                              /\ \A m \in (c + 1)..(c + n) : s[m] = "/"}}
                 \cup (IF c + 1 <= Len(s) /\ IsAfterColon(s[c + 1]) THEN {c + 1} ELSE {})
            ELSE {}
        www ==
            IF i + 2 <= Len(s) /\ SubSeq(s, i, i + 2) = <<"w", "w", "w">>
            THEN {i + 3 + k : k \in {n \in 0..3 : /\ i + 3 + n <= Len(s)
                                                  /\ \A m \in (i + 3)..(i + 2 + n) :
                                                         s[m] \in Digits
                                                  /\ s[i + 3 + n] = "."}}
            ELSE {}
    IN  scheme \cup www

\* After a first group that ends at pe: one or more body characters and a
\* last character.
WebTails(s, pe) ==
    {e \in (pe + 2)..RunEnd("url", s, pe + 1) : IsUrlEnd(s[e])}

WEB_REGEX_ends(s, i) ==
    IF Boundary(s, i) THEN UNION {WebTails(s, pe) : pe \in WebPrefixes(s, i)} ELSE {}

\* The body is greedy and gives characters back until the last one fits:
\* the match ends at the last index it can end at.
WEB_REGEX_match(s, i) ==
    LET ends == WEB_REGEX_ends(s, i) IN IF ends = {} THEN 0 ELSE Max(ends)

\* (EMAIL|PATH|WEB) tried at g, in this order: the end of group 1, or 0.
LinkGroup(s, g) ==
    IF EMAIL_REGEX_match(s, g) # 0
    THEN EMAIL_REGEX_match(s, g)
    ELSE IF PATH_REGEX_match(s, g) # 0
    THEN PATH_REGEX_match(s, g)
    ELSE WEB_REGEX_match(s, g)

NoLink == [start |-> 0, group |-> 0, stop |-> 0]

\* LINK_REGEX tried at p: '^' matches at the start of the text only, '\s'
\* takes one whitespace character into the match.
LINK_REGEX_match(s, p) ==
    IF p = 1 /\ LinkGroup(s, 1) # 0
    THEN [start |-> 1, group |-> 1, stop |-> LinkGroup(s, 1)]
    ELSE IF p <= Len(s) /\ IsSpace(s[p]) /\ LinkGroup(s, p + 1) # 0
    THEN [start |-> p, group |-> p + 1, stop |-> LinkGroup(s, p + 1)]
    ELSE NoLink

\* LINK_REGEX.finditer(s), searching from pos on: the first index at which
\* the pattern matches gives a match, and the search goes on after its end.
RECURSIVE LINK_REGEX_finditer(_, _)
LINK_REGEX_finditer(s, pos) ==
    IF pos > Len(s)
    THEN <<>>
    ELSE IF LINK_REGEX_match(s, pos) = NoLink
    THEN LINK_REGEX_finditer(s, pos + 1)
    ELSE CHOOSE ms \in {<<m>> \o LINK_REGEX_finditer(s, m.stop + 1) :
                            m \in {LINK_REGEX_match(s, pos)}} : TRUE

\* is_string_link(text): LINK_REGEX between '^' and '$'.  Here the engine
\* may take any alternative and any length that brings it to the end.
is_string_link_unanchored(text) ==
    \E g \in {1} \cup (IF Len(text) >= 1 /\ IsSpace(text[1]) THEN {2} ELSE {}) :
        (EMAIL_REGEX_ends(text, g) \cup PATH_REGEX_ends(text, g)
             \cup WEB_REGEX_ends(text, g)) # {}

is_string_link(text) ==
    \E g \in {1} \cup (IF Len(text) >= 1 /\ IsSpace(text[1]) THEN {2} ELSE {}) :
        Len(text) \in EMAIL_REGEX_ends(text, g) \cup PATH_REGEX_ends(text, g)
                          \cup WEB_REGEX_ends(text, g)

\* re.search(EMAIL_REGEX, text) and re.search(WEB_REGEX, text)
search_EMAIL_REGEX(text) == \E i \in 1..Len(text) : EMAIL_REGEX_ends(text, i) # {}

search_WEB_REGEX(text) == \E i \in 1..Len(text) : WEB_REGEX_ends(text, i) # {}

\* str.startswith
startswith(text, prefix) ==
    Len(text) >= Len(prefix) /\ SubSeq(text, 1, Len(prefix)) = prefix

MAILTO == <<"m", "a", "i", "l", "t", "o", ":">>

HTTP == <<"h", "t", "t", "p", ":", "/", "/">>

HTTPS == <<"h", "t", "t", "p", "s", ":", "/", "/">>

FILE == <<"f", "i", "l", "e", ":", "/", "/">>

\* The dict that _raw_links builds of one matched text.
raw_link_always_prefixed(text) ==
    IF search_EMAIL_REGEX(text)
    THEN [text |-> text, link_type |-> "email", href |-> MAILTO \o text]
    ELSE IF search_WEB_REGEX(text)
    THEN [text |-> text, link_type |-> "web", href |-> HTTP \o text]
    ELSE [text |-> text, link_type |-> "path", href |-> FILE \o text]

raw_link(text) ==
    IF search_EMAIL_REGEX(text)
    THEN [text |-> text, link_type |-> "email",
          href |-> IF ~startswith(text, MAILTO) THEN MAILTO \o text ELSE text]
    ELSE IF search_WEB_REGEX(text)
    THEN [text |-> text, link_type |-> "web",
          href |-> IF ~(startswith(text, HTTP) \/ startswith(text, HTTPS))
                   THEN HTTP \o text ELSE text]
    ELSE [text |-> text, link_type |-> "path",
          href |-> IF ~startswith(text, FILE) THEN FILE \o text ELSE text]

\* LinkCollection._raw_links over the item's text
raw_links(text) ==
    LET ms == LINK_REGEX_finditer(text, 1)
        group(m) == SubSeq(text, m.group, m.stop)
    IN  [k \in 1..Len(ms) |->
            CHOOSE link \in {raw_link(matched) : matched \in {group(ms[k])}} : TRUE]

\* LinkCollection.__len__
LinkCollection_len(text) == Len(raw_links(text))

\* LinkCollection.insert: a value that passes the check is handed to
\* self._links, an attribute that no code of the class sets.
LinkCollection_insert(text, key, value) ==
    IF ~is_string_link(value)
    THEN [outcome |-> "ValueError", text |-> text]
    ELSE [outcome |-> "AttributeError", text |-> text]

\* MutableSequence.append: self.insert(len(self), value)
LinkCollection_append(text, value) ==
    LinkCollection_insert(text, LinkCollection_len(text), value)

\* The texts of the items whose links are appended to: an empty one, one
\* without link and two with one link.
SeedTexts ==
    {<<>>, <<"a">>, <<"a", "@", "a", ".", "a", "a">>, <<"a", " ", "/", "a">>}

LinkInit ==
    /\ link_text = <<>>
    /\ llast = [op |-> "none", value |-> <<>>, outcome |-> "ok"]
    /\ pre_link_text = <<>>

\* An item is given its text.
LinkBuild(op, text) ==
    /\ link_text' = text
    /\ llast' = [op |-> op, value |-> <<>>, outcome |-> "ok"]
    /\ pre_link_text' = text
    /\ UNCHANGED <<treeVars, tagVars, itemVars, threadVars>>

\* links = LinkCollection(item) over an item of any text
LinkItem == llast.op = "none" /\ \E text \in LinkTexts(MaxParts) : LinkBuild("init", text)

\* links = LinkCollection(item) over an item of a short text, to append to
LinkSeed == llast.op = "none" /\ \E text \in SeedTexts : LinkBuild("seed", text)

\* item.links.append(value)
LinkAppend ==
    /\ llast.op = "seed"
    /\ \E value \in LinkTexts(MaxParts) :
           LET r == LinkCollection_append(link_text, value)
           IN  /\ link_text' = r.text
               /\ llast' = [op |-> "append", value |-> value, outcome |-> r.outcome]
               /\ pre_link_text' = link_text
               /\ UNCHANGED <<treeVars, tagVars, itemVars, threadVars>>

Init == TreeInit /\ TagInit /\ ItemInit /\ LinkInit /\ ThreadInit

Next == Construct \/ Assign

Spec == Init /\ [][Next]_vars

TagNext == Insert \/ SetItem \/ DelItem \/ AddTag \/ SetTag \/ RemoveTag

TagSpec == Init /\ [][TagNext]_vars

\* item.add_tag(name, value) with a name that is no string
AddBadName == \E value \in Values \cup {NoValue} :
                  TagCall("add_tag", PyTuple(IntName, value), add_tag(tags, IntName, value))

\* The tag methods of the item alone, called with any name.
MethodNext == AddTag \/ AddBadName \/ SetTag \/ RemoveTag

MethodSpec == Init /\ [][MethodNext]_vars

\* The tags of an item written by add_tag and set_tag, and its done state
\* set by the done property and mark_done.
DoneNext == AddTag \/ SetTag \/ SetDone \/ MarkDone

DoneSpec == Init /\ [][DoneNext]_vars

\* Items built from every text.
ParseNext == ParseItem

ParseSpec == Init /\ [][ParseNext]_vars

\* Items built from short texts, and the tag methods called on them.
ItemNext == SeedItem \/ ItemAddTag \/ ItemSetTag \/ ItemRemoveTag

ItemSpec == Init /\ [][ItemNext]_vars

\* Link collections over items of every text, and links appended to them.
LinkNext == LinkItem \/ LinkSeed \/ LinkAppend

LinkSpec == Init /\ [][LinkNext]_vars

\* The outline is built by one thread; then threads assign parents in it.
ThreadNext == Build \/ SetterCheck \/ SetterRemove \/ SetterAppend \/ SetterStore

ThreadSpec == Init /\ [][ThreadNext]_vars

(***************************************************************************)
(* Outline tree: helpers for the claims                                    *)
(***************************************************************************)
IsCall == last.op \in {"set", "new"}

Unchanged == parent = pre_parent /\ children = pre_children

\* x is reached from y by following parent links of par one or more times.
IsAncestor(par, x, y) == y # None /\ x \in Range(ancestors(par, y, WalkFuel))

Count(s, x) == Cardinality({i \in 1..Len(s) : s[i] = x})

Without(s, x) == SelectSeq(s, LAMBDA e : e # x)

\* C1: after any sequence of parent assignments and constructions the parent
\* relation is acyclic: no item is reached from itself by following parent
\* links.
C1_Acyclic == \A i \in Created : ~IsAncestor(parent, i, i)

\* C2: assigning x.parent = y when x is a proper ancestor of y raises
\* TaskPaperError and leaves every parent link and children list as it was.
C2_CycleRejected ==
    (/\ last.op = "set"
     /\ last.self # last.new
     /\ IsAncestor(pre_parent, last.self, last.new))
    => (last.outcome = "TaskPaperError" /\ Unchanged)

\* A rejection over a chain of length two or more: self is an ancestor of the
\* candidate parent without being its direct parent.
C2_Witness ==
    /\ last.op = "set"
    /\ last.outcome = "TaskPaperError"
    /\ last.self # last.new
    /\ pre_parent[last.new] # last.self
    /\ IsAncestor(pre_parent, last.self, last.new)

\* C3: assigning an item as its own parent is rejected with TaskPaperError:
\* afterwards the item is not among its own children and its parent is
\* unchanged.
C3_SelfParentRejected ==
    (last.op = "set" /\ last.self = last.new)
    => (/\ last.outcome = "TaskPaperError"
        /\ last.self \notin Range(children[last.self])
        /\ parent[last.self] = pre_parent[last.self])

\* C7: a successful assignment c.parent = p2, with c's parent p1 # p2 and no
\* cycle arising, removes c from p1's children, appends c as the last child
\* of p2, sets c's parent to p2 and changes nothing else.
C7_Relinked ==
    (/\ IsCall
     /\ last.outcome = "ok"
     /\ last.self # last.new
     /\ ~IsAncestor(pre_parent, last.self, last.new))
    => LET c  == last.self
           p1 == pre_parent[c]
           p2 == last.new
       IN  /\ p1 # p2
           /\ parent[c] = p2
           /\ \A i \in Items \ {c} : parent[i] = pre_parent[i]
           /\ p1 # None => children[p1] = Without(pre_children[p1], c)
           /\ p2 # None => children[p2] = Append(pre_children[p2], c)
           /\ \A i \in Items \ {p1, p2} : children[i] = pre_children[i]

\* An item moved from one parent to another that already had a child.
C7_Witness ==
    /\ last.op = "set"
    /\ last.outcome = "ok"
    /\ pre_parent[last.self] \notin {None, last.self}
    /\ last.new \notin {None, last.self}
    /\ Len(children[last.new]) >= 2
    /\ C1_Acyclic

\* C8: assigning an item the parent it already has changes nothing; the item
\* is not appended a second time.
C8_SameParentNoOp ==
    (IsCall /\ last.new = pre_parent[last.self])
    => (/\ Unchanged
        /\ last.outcome = "noop"
        /\ last.new # None => Count(children[last.new], last.self) = 1)

\* Re-assigning the current parent of an item that is the first of two
\* children.
C8_Witness ==
    /\ last.op = "set"
    /\ last.new # None
    /\ last.new = pre_parent[last.self]
    /\ Len(children[last.new]) >= 2
    /\ children[last.new][1] = last.self

\* C9: item.parent = None never raises; afterwards the item has no parent,
\* is not among its former parent's children and keeps its own children.
C9_DetachSucceeds ==
    (last.op = "set" /\ last.new = None)
    => LET c == last.self
       IN  /\ last.outcome \in {"ok", "noop"}
           /\ parent[c] = None
           /\ pre_parent[c] # None => c \notin Range(children[pre_parent[c]])
           /\ children[c] = pre_children[c]

\* C10: every parent assignment terminates: the ancestor walk of the cycle
\* check visits finitely many items.
C10_AssignmentTerminates == last.outcome # "hang"

(***************************************************************************)
(* Tag collection: helpers for the claims                                  *)
(***************************************************************************)
DoneTags(ts) == SelectSeq(ts, IsDone)

WroteDone == tlast.outcome = "ok" /\ tlast.tag.name = "done"

ExampleBody == "hello world"

DoneStrings == {tag_str(TaskPaperTag("done", v)) : v \in Values}

C6_NewestDoneSurvives ==
    (WroteDone /\ Len(DoneTags(pre_tags)) >= 1)
    => DoneTags(tags) = <<tlast.tag>>

\* A done tag written by insert over a done tag with another value.
C6_Witness ==
    /\ WroteDone
    /\ tlast.op = "insert"
    /\ Len(DoneTags(pre_tags)) = 1
    /\ DoneTags(pre_tags)[1].value # tlast.tag.value
    /\ Len(pre_tags) >= 2

(***************************************************************************)
(* Tag methods of the item: helpers for the claims                         *)
(***************************************************************************)
\* The tag the arguments (name, value) of a call stand for.
ArgTag == TaskPaperTag(tlast.arg.a, IF tlast.arg.b = NoValue THEN "" ELSE tlast.arg.b)

\* The tag is one that remove_tag(name, value) is asked to remove.
Matches(tag) ==
    tag.name = tlast.arg.a /\ (tlast.arg.b = NoValue \/ tag.value = tlast.arg.b)

NoMatch(tag) == ~Matches(tag)

HasName(ts, name) == \E i \in 1..Len(ts) : ts[i].name = name

FirstNamed(ts, name) ==
    CHOOSE i \in 1..Len(ts) : ts[i].name = name /\ \A j \in 1..(i - 1) : ts[j].name # name

DropIndex(ts, k) == SubSeq(ts, 1, k - 1) \o SubSeq(ts, k + 1, Len(ts))

\* C11: remove_tag(name) removes every tag of that name, remove_tag(name,
\* value) every tag of that name and value, also when such tags are adjacent;
\* all other tags remain in their order.
C11_RemoveTagRemovesAll ==
    tlast.op = "remove_tag" => tags = SelectSeq(pre_tags, NoMatch)

\* C12 as stated: removing a tag by a name that is not present fails with a
\* NoSuchTag error and leaves the tags unchanged.
C12_RemoveAbsentRaises ==
    (tlast.op = "remove_tag" /\ ~HasName(pre_tags, tlast.arg.a))
    => (tlast.outcome = "NoSuchTag" /\ tags = pre_tags)

\* C12 as amended: removing a tag by a name that is not present raises
\* nothing and leaves the tags, and with them the item's string, unchanged.
C12_RemoveAbsentIsNoOp ==
    (tlast.op = "remove_tag" /\ ~HasName(pre_tags, tlast.arg.a))
    => (/\ tlast.outcome = "ok"
        /\ tags = pre_tags
        /\ item_str(ExampleBody, tags) = item_str(ExampleBody, pre_tags))

\* remove_tag of an absent name on an item that has tags.
C12_Witness ==
    /\ tlast.op = "remove_tag"
    /\ ~HasName(pre_tags, tlast.arg.a)
    /\ Len(pre_tags) >= 2

C14_AddTagKeepsTags ==
    (tlast.op = "add_tag" /\ tlast.outcome = "ok" /\ tlast.tag.name # "done")
    => /\ Len(tags) = Len(pre_tags) + 1
       /\ \E k \in 1..Len(tags) : tags[k] = tlast.tag /\ DropIndex(tags, k) = pre_tags

\* add_tag of a name the item already has, with another value.
C14_Witness ==
    /\ tlast.op = "add_tag"
    /\ tlast.outcome = "ok"
    /\ tlast.tag.name # "done"
    /\ HasName(pre_tags, tlast.tag.name)
    /\ tlast.tag \notin Range(pre_tags)

\* C19: add_tag with a name that is no string raises ValueError, with or
\* without a value, and leaves the tags unchanged.
C19_BadNameRejected ==
    (tlast.op = "add_tag" /\ tlast.arg.a = IntName)
    => (tlast.outcome = "ValueError" /\ tags = pre_tags)

QueryNames == Names \cup {"Foo", "DONE", "lorem"}

QueryValues == Values \cup {NoValue, "ipsum"}

\* C20: `name in item.tags` holds exactly when a tag has that name,
\* `(name, value) in item.tags` exactly when that tag is in the collection,
\* and nothing that is neither a string nor a 2-tuple is in it.
C20_Membership ==
    /\ \A n \in QueryNames :
           contains(tags, PyStr(n)) <=> n \in {tags[i].name : i \in 1..Len(tags)}
    /\ \A n \in QueryNames : \A v \in QueryValues :
           contains(tags, PyTuple(n, v)) <=> TaskPaperTag(n, v) \in Range(tags)
    /\ ~contains(tags, PyInt)
    /\ ~contains(tags, NoArg)

\* A collection with a tag whose name is in it but not with every value.
C20_Witness ==
    /\ contains(tags, PyStr("foo"))
    /\ contains(tags, PyTuple("foo", "now"))
    /\ ~contains(tags, PyTuple("foo", ""))
    /\ ~contains(tags, PyStr("baz"))
    /\ Len(tags) >= 2

(***************************************************************************)
(* The item of items.py: helpers for the claims                            *)
(***************************************************************************)
\* The tag the arguments (name, value) of the last call on item stand for.
ItemArgTag == TaskPaperTag(ilast.name, IF ilast.value = NoneValue THEN <<>> ELSE ilast.value)

ItemHasName(it, name) == \E i \in 1..Len(it.tags) : it.tags[i].name = name

ItemFirstNamed(it, name) ==
    CHOOSE i \in 1..Len(it.tags) :
        it.tags[i].name = name /\ \A j \in 1..(i - 1) : it.tags[j].name # name

\* set_tag has just given a value to a tag the item had.
SetExisting ==
    /\ ilast.op = "set_tag"
    /\ ilast.outcome = "ok"
    /\ ItemHasName(pre_item, ilast.name)

\* The text of pre_item with the span of its first tag of that name replaced
\* by the new tag.
SplicedText ==
    LET t == pre_item.text
        ms == TAG_REGEX_finditer(t, 1)
        i == CHOOSE k \in 1..Len(ms) :
                 ms[k].name = ilast.name /\ \A j \in 1..(k - 1) : ms[j].name # ilast.name
        at == CHOOSE q \in ms[i].start..ms[i].stop : q >= ms[i].start /\ t[q] = "@"
    IN  SubSeq(t, 1, at - 1) \o tag_text(ItemArgTag) \o SubSeq(t, ms[i].stop, Len(t))

\* C15 as stated: setting the value of an existing tag rewrites the item's
\* text in place: the item's string is the text it was built from with that
\* tag's span replaced, so a tag in the middle of the text stays where it was.
C15_TextRewrittenInPlace ==
    (SetExisting /\ ncalls = 1)
    => strip(TaskPaperItem_str(item)) = strip(SplicedText)

\* C15 as amended: setting the value of an existing tag leaves the text
\* buffer and the body text as they were and replaces that tag in the tag
\* list, so str(item), the body text followed by the tags, differs from
\* str(item) before the call only inside that tag's own span.
C15_SetTagRewritesTagOnly ==
    SetExisting
    => LET i == ItemFirstNamed(pre_item, ilast.name)
           before == TaskPaperItem_str([pre_item EXCEPT !.tags = SubSeq(@, 1, i - 1)])
                         \o <<" ">>
           after == join_tags(SubSeq(pre_item.tags, i + 1, Len(pre_item.tags)), 1)
       IN  /\ item.text = pre_item.text
           /\ item.body_text = pre_item.body_text
           /\ TaskPaperItem_str(pre_item) = before \o tag_text(pre_item.tags[i]) \o after
           /\ TaskPaperItem_str(item) = before \o tag_text(ItemArgTag) \o after

\* set_tag gives a new value to a tag that stood before body text in the
\* text the item was built from.
C15_Witness ==
    /\ SetExisting
    /\ pre_item.body_text # <<>>
    /\ pre_item.tags[ItemFirstNamed(pre_item, ilast.name)] # ItemArgTag
    /\ TaskPaperItem_str(pre_item) # pre_item.text
    /\ TaskPaperItem_str(item) # TaskPaperItem_str(pre_item)

\* _TagCollection.__eq__ of items.py: equal lengths and equal sorted lists.
TagsEqual(a, b) ==
    /\ Len(a) = Len(b)
    /\ \A t \in Range(a) \cup Range(b) : Count(a, t) = Count(b, t)

\* TaskPaperItem(str(it)).tags == it.tags
RoundTrip(it) ==
    LET r == TaskPaperItem_init(TaskPaperItem_str(it))
    IN  r.outcome = "ok" /\ TagsEqual(r.item.tags, it.tags)

\* The value has a ')' that no backslash precedes.
UnescapedParen(value) ==
    /\ value # NoneValue
    /\ \E i \in 1..Len(value) : value[i] = ")" /\ (i = 1 \/ value[i - 1] # "\\")

\* The value has a ')', and a backslash before every ')'.
EscapedParen(value) ==
    /\ value # NoneValue
    /\ ")" \in Range(value)
    /\ ~UnescapedParen(value)

\* C16 as stated: an item built from any text and changed by add_tag calls
\* whose values have no unescaped ')' has a string from which a new item
\* gets an equal tag collection.
C16_RoundTrip ==
    (/\ item # NoItem
     /\ ilast.op \in {"init", "add_tag"}
     /\ ncalls <= 1
     /\ ilast.outcome = "ok"
     /\ ~UnescapedParen(ilast.value))
    => RoundTrip(item)

\* The tag is one every string of an item gives back: its name is made of
\* name characters and its value has no ')' and no backslash at its end.
PlainTag(tag) ==
    /\ \A i \in 1..Len(tag.name) : IsNameChar(tag.name[i])
    /\ ")" \notin Range(tag.value)
    /\ (tag.value = <<>> \/ tag.value[Len(tag.value)] # "\\")

\* C16 as amended: an item whose body text has no '(' and whose tags all
\* have names made of name characters and values without ')' and without a
\* backslash at the end has a string from which a new item gets an equal tag
\* collection.
C16_RoundTripOfPlainTags ==
    (/\ item # NoItem
     /\ "(" \notin Range(item.body_text)
     /\ \A i \in 1..Len(item.tags) : PlainTag(item.tags[i]))
    => RoundTrip(item)

\* A tag with a value was added to an item built from a text with body text
\* and a tag.
C16_Witness ==
    /\ ilast.op = "add_tag"
    /\ ilast.outcome = "ok"
    /\ ilast.value \notin {NoneValue, <<>>}
    /\ Len(item.tags) >= 2
    /\ item.body_text # <<>>
    /\ "(" \notin Range(item.body_text)
    /\ \A i \in 1..Len(item.tags) : PlainTag(item.tags[i])
    /\ RoundTrip(item)

\* C17: add_tag and set_tag with a value that has an unescaped ')' raise
\* ValueError and leave the item's tags as they were.
C17_BadValueRejected ==
    (ilast.op \in {"add_tag", "set_tag"} /\ UnescapedParen(ilast.value))
    => (ilast.outcome = "ValueError" /\ item = pre_item)

\* set_tag with such a value for a tag the item has.
C17_Witness ==
    /\ ilast.op = "set_tag"
    /\ UnescapedParen(ilast.value)
    /\ ItemHasName(pre_item, ilast.name)
    /\ ilast.outcome = "ValueError"

\* The matches of the text the constructor was given whose value has a ')'.
EscapedMatches ==
    LET ms == TAG_REGEX_finditer(rstrip(ilast.text), 1)
    IN  {TaskPaperTag(ms[i].name, ms[i].value) :
             i \in {k \in 1..Len(ms) : EscapedParen(ms[k].value)}}

\* C18: a value in which every ')' is escaped as '\)' is valid: an item
\* built from a text with such a tag has that tag, and add_tag and set_tag
\* accept such a value.
C18_EscapedParenAccepted ==
    /\ (ilast.op = "init" /\ EscapedMatches # {})
       => (ilast.outcome = "ok" /\ EscapedMatches \subseteq Range(item.tags))
    /\ (ilast.op \in {"add_tag", "set_tag"} /\ EscapedParen(ilast.value))
       => (ilast.outcome = "ok" /\ ItemArgTag \in Range(item.tags))

(***************************************************************************)
(* Equality of tag collections                                             *)
(***************************************************************************)
\* The same tags with the same multiplicities.
SameTags(a, b) ==
    \A t \in Range(a) \cup Range(b) : Count(a, t) = Count(b, t)

\* The tags of the collection in every order.
Reorderings(ts) ==
    {[i \in 1..Len(ts) |-> ts[p[i]]] :
         p \in {q \in [1..Len(ts) -> 1..Len(ts)] : \A i, j \in 1..Len(ts) : q[i] = q[j] => i = j}}

\* Lists near the collection: one tag dropped, one tag added, one tag replaced.
Neighbours(ts) ==
    {SubSeq(ts, 1, k - 1) \o SubSeq(ts, k + 1, Len(ts)) : k \in 1..Len(ts)}
    \cup {Append(ts, TaskPaperTag(n, v)) : n \in Names, v \in Values}
    \cup {[ts EXCEPT ![k] = TaskPaperTag(n, v)] : k \in 1..Len(ts), n \in Names, v \in Values}

\* C21: two tag collections are equal exactly when they hold the same tags
\* with the same multiplicities: a reordering of a collection is equal to it
\* and collections of different lengths are never equal.
C21_EqualityIsMultisetEquality ==
    /\ \A other \in Reorderings(tags) :
           TagCollection_eq(tags, other) /\ ~TagCollection_ne(tags, other)
    /\ \A other \in Neighbours(tags) \cup Reorderings(pre_tags) :
           /\ TagCollection_eq(tags, other) <=> SameTags(tags, other)
           /\ TagCollection_ne(tags, other) <=> ~SameTags(tags, other)
           /\ Len(other) # Len(tags) => ~TagCollection_eq(tags, other)

\* A collection of three tags, two of one name, compared with its
\* reorderings and with a list that has the same names but another value.
C21_Witness ==
    /\ Len(tags) = 3
    /\ tags[1].name = tags[3].name
    /\ tags[1] # tags[3]
    /\ tags[2].name # tags[1].name
    /\ \E other \in Reorderings(tags) : other # tags /\ TagCollection_eq(tags, other)
    /\ ~TagCollection_eq(tags, [tags EXCEPT ![1] = tags[3]])

(***************************************************************************)
(* The done tag and the order of the other tags                            *)
(***************************************************************************)
OtherTags(ts) == SelectSeq(ts, NotDone)

\* C22: writing or relocating the done tag never changes the relative order
\* of the tags not named 'done' (index assignment of a done tag takes the tag
\* at that index out, the others keep their order); a non-done tag appended
\* while a done tag is present ends up after all earlier non-done tags and
\* immediately before the done tag.
C22_OtherTagsKeepOrder ==
    /\ WroteDone
       => IF tlast.op = "setitem"
          THEN \E k \in 1..Len(pre_tags) :
                   OtherTags(tags) = OtherTags(DropIndex(pre_tags, k))
          ELSE OtherTags(tags) = OtherTags(pre_tags)
    /\ (/\ tlast.op = "add_tag"
        /\ tlast.outcome = "ok"
        /\ tlast.tag.name # "done"
        /\ HasName(pre_tags, "done"))
       => tags = OtherTags(pre_tags) \o <<tlast.tag>> \o DoneTags(pre_tags)

\* A tag appended behind two tags, the second of them the done tag.
C22_Witness ==
    /\ tlast.op = "add_tag"
    /\ tlast.outcome = "ok"
    /\ Len(pre_tags) = 2
    /\ pre_tags[1].name = "foo"
    /\ pre_tags[2].name = "done"
    /\ tlast.tag.name = "baz"
    /\ tags = <<pre_tags[1], tlast.tag, pre_tags[2]>>

(***************************************************************************)
(* Where tags are recognised                                               *)
(***************************************************************************)
\* The ways a tag can be written in a text.
Spellings(tag) ==
    IF tag.value = <<>>
    THEN {<<"@">> \o tag.name, <<"@">> \o tag.name \o <<"(", ")">>}
    ELSE {<<"@">> \o tag.name \o <<"(">> \o tag.value \o <<")">>}

\* The word w stands in the text at i, with the start of the text or
\* whitespace before it and whitespace or the end of the text after it.
StandsAlone(t, w, i) ==
    /\ i + Len(w) - 1 <= Len(t)
    /\ SubSeq(t, i, i + Len(w) - 1) = w
    /\ (i = 1 \/ t[i - 1] = " ")
    /\ (i + Len(w) > Len(t) \/ t[i + Len(w)] = " ")

\* C23: a tag is recognised only where it starts at the beginning of the
\* text or after whitespace and is followed by whitespace or the end of the
\* text; a text such as '@a)', '@a())' or '@(a)a' yields no tag, not a
\* shortened one.
C23_TagsStandAlone ==
    (ilast.op = "init" /\ item # NoItem)
    => /\ \A k \in 1..Len(item.tags) :
              \E w \in Spellings(item.tags[k]) : \E i \in 1..Len(item.text) :
                  StandsAlone(item.text, w, i)
       /\ ilast.text \in {<<"@", "a", ")">>, <<"@", "a", "(", ")", ")">>,
                          <<"@", "(", "a", ")", "a">>, <<"a", "@", "a">>}
          => item.tags = <<>>

\* An item built from a text whose tag is followed by a spurious ')'.
C23_Witness ==
    /\ ilast.op = "init"
    /\ ilast.text = <<"@", "a", "(", ")", ")">>
    /\ item # NoItem
    /\ item.tags = <<>>
    /\ item.body_text = ilast.text


(***************************************************************************)
(* C24: a string that is not a link is not appended                        *)
(***************************************************************************)
\* The indices at which a link that starts at the first character of the
\* text can end, whichever of the three kinds it is.
GrammarEnds(text) ==
    EMAIL_REGEX_ends(text, 1) \cup PATH_REGEX_ends(text, 1) \cup WEB_REGEX_ends(text, 1)

\* The value matches the link grammar over its whole length: it is one
\* link from end to end, after the one whitespace character that the
\* grammar lets a link begin with.
WholeLink(value) ==
    \/ Len(value) \in GrammarEnds(value)
    \/ /\ value # <<>>
       /\ IsSpace(Head(value))
       /\ Len(Tail(value)) \in GrammarEnds(Tail(value))

LinkAppended == llast.op = "append"

\* C24: appending to the links a string that does not match the link
\* grammar over its whole length, such as a word or a web address followed
\* by a word, raises ValueError and leaves the item's text and its links
\* unchanged.
C24_BadLinkRejected ==
    LinkAppended
    => /\ ~WholeLink(llast.value)
          => /\ llast.outcome = "ValueError"
             /\ link_text = pre_link_text
             /\ raw_links(link_text) = raw_links(pre_link_text)
       /\ llast.value \in {<<"a">>, <<"w", "w", "w", ".", "a", "a", " ", "a">>}
          => llast.outcome = "ValueError"

\* A web address followed by a word is appended to an item with one link.
C24_Witness ==
    /\ LinkAppended
    /\ llast.value = <<"w", "w", "w", ".", "a", "a", " ", "a">>
    /\ llast.outcome = "ValueError"
    /\ Len(raw_links(pre_link_text)) = 1
    /\ link_text = pre_link_text

(***************************************************************************)
(* C25: a link is appended                                                 *)
(***************************************************************************)
\* C25: appending a string that is a link from end to end succeeds; the
\* item then has one link more, and the appended string is the last of them.
C25_GoodLinkAppended ==
    (LinkAppended /\ WholeLink(llast.value))
    => /\ llast.outcome = "ok"
       /\ LET found == raw_links(link_text)
          IN  /\ Len(found) = Len(raw_links(pre_link_text)) + 1
              /\ found[Len(found)].text = llast.value

(***************************************************************************)
(* C26: the href of a link                                                 *)
(***************************************************************************)
\* The scheme that is put before a link of a type.
SchemeOf(link_type) ==
    CASE link_type = "email" -> MAILTO
      [] link_type = "web" -> HTTP
      [] link_type = "path" -> FILE

\* The schemes a link of a type may already start with.
SchemesOf(link_type) ==
    CASE link_type = "email" -> {MAILTO}
      [] link_type = "web" -> {HTTP, HTTPS}
      [] link_type = "path" -> {FILE}

CarriesScheme(link) == \E scheme \in SchemesOf(link.link_type) : startswith(link.text, scheme)

LinksFound == raw_links(link_text)

\* C26: the href of every link found in a text is the link's text when the
\* text starts with a scheme of the link's type, and else the scheme of the
\* type followed by the text.
C26_Href ==
    \A k \in 1..Len(LinksFound) :
        LET link == LinksFound[k]
        IN  link.href = IF CarriesScheme(link) THEN link.text
                        ELSE SchemeOf(link.link_type) \o link.text

\* An item whose text is an email address with its scheme: the href is the
\* text itself.
C26_Witness ==
    /\ llast.op = "init"
    /\ link_text = MAILTO \o <<"a", "@", "a", ".", "a", "a">>
    /\ Len(LinksFound) = 1
    /\ LinksFound[1].link_type = "email"
    /\ LinksFound[1].href = link_text

(***************************************************************************)
(* C27: the done state and the done date that an item reports              *)
(***************************************************************************)
DoneAt(ts) == {i \in 1..Len(ts) : ts[i].name = "done"}

\* The last call wrote a done tag without value: '@done' (no value given)
\* or '@done()' (the empty value).
WroteBareDone ==
    /\ tlast.op \in {"add_tag", "set_tag"}
    /\ tlast.outcome = "ok"
    /\ tlast.arg.a = "done"
    /\ tlast.arg.b \in {NoValue, ""}

DoneSet(b) == tlast.op = "set_done" /\ tlast.arg = PyBool(b)

C29_MarkDoneIdempotent ==
    ((DoneSet("True") \/ tlast.op = "mark_done") /\ DoneAt(pre_tags) # {})
    => TaskPaperItem_done_date(tags) = TaskPaperItem_done_date(pre_tags)

(***************************************************************************)
(* C30: the done setter takes booleans only                                *)
(***************************************************************************)
\* C30: assigning item.done a value that is not a boolean raises ValueError
\* and leaves the tags and the done state as they were.
C30_NonBooleanRejected ==
    (tlast.op = "set_done" /\ tlast.arg.t # "bool")
    => /\ tlast.outcome = "ValueError"
       /\ tags = pre_tags
       /\ TaskPaperItem_done(tags) = TaskPaperItem_done(pre_tags)

\* A number is assigned to the done property of an item that is done.
C30_Witness ==
    /\ tlast.op = "set_done"
    /\ tlast.arg = PyInt
    /\ tlast.outcome = "ValueError"
    /\ TaskPaperItem_done(tags)
    /\ tags = pre_tags


(***************************************************************************)
(* C31: parent links and children lists agree                              *)
(***************************************************************************)
\* C31: in every state reached by parent assignments and constructions, item
\* c is in item p's children exactly when c.parent is p, it is there once,
\* and so no item is in the children of two items.
C31_ParentChildrenAgree ==
    /\ \A p \in Created : Range(children[p]) \subseteq Created
    /\ \A c \in Created : \A p \in Created :
           Count(children[p], c) = IF parent[c] = p THEN 1 ELSE 0

\* An item with a sibling has moved from one parent to another.
C31_Witness ==
    /\ last.op = "set" /\ last.outcome = "ok"
    /\ pre_parent[last.self] \notin {None, last.new}
    /\ last.new # None
    /\ Len(pre_children[pre_parent[last.self]]) > 1
    /\ C31_ParentChildrenAgree


(***************************************************************************)
(* C32: two threads that assign parents in one outline                     *)
(***************************************************************************)
Finished == \A t \in Threads : pc[t] \notin {"idle", "remove", "append", "store"}

\* The two threads ran a.parent = b and b.parent = a.
Swapped ==
    /\ req["t1"].self # req["t1"].new
    /\ req["t2"] = [self |-> req["t1"].new, new |-> req["t1"].self]

\* C32: the parent setter has no mutual exclusion: when a.parent = b and
\* b.parent = a run in two threads and both threads pass the ancestor check
\* before either relinks, none of them raises, both go on to relink, and the
\* outline they leave has a cycle.
C32_NoMutualExclusion ==
    (raced /\ Swapped /\ Finished) =>
        /\ \A t \in Threads : pc[t] = "done"
        /\ \A t \in Threads : parent[req[t].self] = req[t].new
        /\ IsAncestor(parent, req["t1"].self, req["t1"].self)

\* Both threads have passed their checks on two items that were unrelated,
\* both have finished and the outline has a cycle.
C32_Witness ==
    /\ raced /\ Swapped /\ Finished
    /\ \A t \in Threads : pc[t] = "done"
    /\ IsAncestor(parent, req["t1"].self, req["t1"].self)


(***************************************************************************)
(* C33: a done tag assigned over a position                                *)
(***************************************************************************)
DoneAssigned ==
    tlast.op = "setitem" /\ tlast.outcome = "ok" /\ tlast.tag.name = "done"

\* C33: tags[p] = ('done', v) removes the tag that was at position p, a done
\* tag or not, and every other done tag: the collection then holds the other
\* tags that are not done tags, in the order they had, and ('done', v) last.
C33_DoneAssignedOverPosition ==
    DoneAssigned =>
        tags = SelectSeq(ListDel(pre_tags, tlast.position), NotDone) \o <<tlast.tag>>

\* A done tag was assigned over a tag that is no done tag, in a collection
\* that held a done tag and one more tag.
C33_Witness ==
    /\ DoneAssigned
    /\ Len(pre_tags) = 3
    /\ DoneAt(pre_tags) # {}
    /\ pre_tags[PyIndex(Len(pre_tags), tlast.position) + 1].name # "done"
    /\ Len(tags) = 2
    /\ tags[2] = tlast.tag
    /\ tags[2] # pre_tags[3]


(***************************************************************************)
(* C34: the names of the tags found in a text                              *)
(***************************************************************************)
\* C34: every tag that the constructor finds in a text has a name of at
\* least one character: an '@' that stands alone, or one that is followed
\* at once by a value in parentheses, gives no tag.
C34_TagNamesNonEmpty ==
    (ilast.op = "init" /\ item # NoItem)
    => \A k \in 1..Len(item.tags) : item.tags[k].name # <<>>


(***************************************************************************)
(* C35: the tag methods leave the body text alone                          *)
(***************************************************************************)
TagMethodCalled == ilast.op \in {"add_tag", "set_tag", "remove_tag"}

\* C35: add_tag, set_tag and remove_tag change the tag collection only: the
\* text and the body text of the item are what they were before the call,
\* the body text is still the text with its tags removed, as the constructor
\* left it, and str(item) starts with the body text.
C35_BodyTextKept ==
    TagMethodCalled =>
        /\ item.text = pre_item.text
        /\ item.body_text = pre_item.body_text
        /\ item.body_text = TaskPaperItem_init(item.text).item.body_text
        /\ startswith(TaskPaperItem_str(item), item.body_text)

\* A tag method has changed the tags of an item that has a body text and had
\* a tag in its text.
C35_Witness ==
    /\ TagMethodCalled
    /\ ilast.outcome = "ok"
    /\ item.body_text # <<>>
    /\ pre_item.tags # <<>>
    /\ item.tags # pre_item.tags
    /\ item.body_text = pre_item.body_text
    /\ TaskPaperItem_str(item) # TaskPaperItem_str(pre_item)

====
